---- MODULE Spec2Model ----
(***************************************************************************)
(* safe_cctype.hpp: wrappers that widen a plain char to unsigned char      *)
(* before delegating to the <cctype> classification / conversion routines. *)
(*                                                                         *)
(* A char value is modelled as the integer it holds: -128..127 when plain  *)
(* char is signed, 0..255 when it is unsigned (the build decides).  The    *)
(* <cctype> routines are modelled for the "C" locale (ISO C 7.4) and for   *)
(* one single-byte ISO-8859-1 locale; outside 0..255 and EOF their         *)
(* behaviour is undefined and the result is whatever the platform of the   *)
(* build does there.                                                       *)
(***************************************************************************)
EXTENDS Integers, Sequences, FiniteSets

VARIABLES
    charSigned,   \* build: is plain char a signed type
    platform,     \* build: the <cctype> implementation the program is linked to
    locale,       \* the active C locale (process-wide, owned by the platform)
    op,           \* the library entry point called last
    opLocale,     \* the locale that was active during that call
    ch,           \* the char the caller passes to single-character entry points
    ret,          \* its return value when a char or a bool, else 0
    calls,        \* the <cctype> calls it made, in order: [fn, arg]
    s,            \* the caller's mutable character sequence
    orig,         \* the content of s before that call
    out,          \* the sequence it returned, else empty
    first,        \* the range [first, last) of s it was given, as positions
    last          \*   1..Len(s)+1 (1, 1 when it takes no sequence)

vars == <<charSigned, platform, locale, op, opLocale, ch, ret, calls,
          s, orig, out, first, last>>

\* ---------------------------------------------------------------- bounds
MaxLen == 3                      \* longest character sequence explored
SeqBytes == {97, 233, 49}        \* bytes sequences are built from: 'a', 0xE9, '1'

\* ------------------------------------------------------- the char types
UCHAR_MAX == 255
EOF == -1
Byte == 0..UCHAR_MAX
Locales == {"C", "Latin1"}

\* the <cctype> implementations a build may use.  They agree on 0..255 and
\* EOF up to the non-zero value of a classification, and differ on the
\* other values an int converted from a char can have, -128..-2:
\*   "glibc"   tables indexed -128..255, the entries -128..-2 being those of
\*             the bytes 128..254; a conversion tests its argument against
\*             the table bounds and returns it unchanged when beyond them
\*   "inline"  glibc, with isdigit expanded inline by the compiler to the
\*             range test c - '0' <= 9, whose value is 1 or 0
\*   "other"   a table read out of bounds that finds the class bit set, and
\*             a conversion that finds 0
Platforms == {"glibc", "inline", "other"}

\* the arguments within the bounds of the classification tables
TableRange == -128..UCHAR_MAX

\* the outcome of a classification call beyond the tables.  The read lands
\* in whatever memory surrounds them: the call may return any value, a
\* different one for each argument, or not return at all (a fault).  The
\* model places no constraint on it: Undefined stands for all of these
\* outcomes and equals none of the values a call returns.
Undefined == "undefined"

\* the values a plain char can hold
CharValues == IF charSigned THEN -128..127 ELSE Byte

\* static_cast<unsigned char>(x), also the implicit conversion at a
\* parameter of type unsigned char: reduction modulo 2^8
\* (variant: the value is passed on without the cast)
ToUChar_nocast(x) == x
ToUChar(x) == x % (UCHAR_MAX + 1)

\* static_cast<char>(x) of an int: modulo 2^8, into the range of plain char
ToChar(x) ==
    LET m == x % (UCHAR_MAX + 1)
    IN  IF charSigned /\ m > 127 THEN m - (UCHAR_MAX + 1) ELSE m

\* the char holding byte value b
CharOf(b) == ToChar(b)

\* ----------------------------------------------------- <cctype> facility
FacilityDomain == Byte \cup {EOF}

AsciiUpper == 65..90
AsciiLower == 97..122
AsciiDigit == 48..57
Latin1Upper == (192..222) \ {215}
Latin1Lower == ((223..255) \ {247}) \cup {170, 181, 186}

UpperSet == IF locale = "C" THEN AsciiUpper ELSE AsciiUpper \cup Latin1Upper
LowerSet == IF locale = "C" THEN AsciiLower ELSE AsciiLower \cup Latin1Lower
AlphaSet == UpperSet \cup LowerSet
DigitSet == AsciiDigit
XDigitSet == AsciiDigit \cup (65..70) \cup (97..102)
SpaceSet == {32} \cup (9..13)
CntrlSet == IF locale = "C" THEN (0..31) \cup {127}
                            ELSE (0..31) \cup (127..159)
PrintSet == IF locale = "C" THEN 32..126 ELSE (32..126) \cup (160..255)
GraphSet == PrintSet \ {32}
AlnumSet == AlphaSet \cup DigitSet
PunctSet == GraphSet \ AlnumSet

\* the values outside the domain for which glibc's tables hold the entry
\* of a byte, and that byte
Mirrored == -128..-2
MirrorOf(c) == c + UCHAR_MAX + 1

\* a classification routine: non-zero (the class's mask bit) for a member,
\* 0 for any other value of the domain; outside the domain (undefined
\* behaviour) what the platform does within the tables, and no defined
\* outcome beyond them
Classify(c, set, mask) ==
    IF c \in FacilityDomain THEN (IF c \in set THEN mask ELSE 0)
    ELSE IF c \notin TableRange THEN Undefined
    ELSE IF platform = "other" THEN mask
    ELSE IF MirrorOf(c) \in set THEN mask
    ELSE 0

isalpha(c)  == Classify(c, AlphaSet, 1024)
\* the inline range test reads no table: it is 0 for every other int
isdigit(c)  ==
    IF platform = "inline" THEN (IF c \in DigitSet THEN 1 ELSE 0)
    ELSE Classify(c, DigitSet, 2048)
isalnum(c)  == Classify(c, AlnumSet, 8)
isspace(c)  == Classify(c, SpaceSet, 8192)
iscntrl(c)  == Classify(c, CntrlSet, 2)
ispunct(c)  == Classify(c, PunctSet, 4)
isprint(c)  == Classify(c, PrintSet, 16384)
isgraph(c)  == Classify(c, GraphSet, 32768)
isxdigit(c) == Classify(c, XDigitSet, 4096)

\* lower-case letters that have an upper-case partner in the locale's
\* character set, and the converse (0xDF, 0xFF, 0xAA, 0xB5, 0xBA have none)
HasUpper == IF locale = "C" THEN AsciiLower
                            ELSE AsciiLower \cup ((224..254) \ {247})
HasLower == IF locale = "C" THEN AsciiUpper
                            ELSE AsciiUpper \cup Latin1Upper

\* a conversion routine mapping the members of set by offset; outside the
\* domain (undefined behaviour) what the platform does: glibc returns the
\* entry of the mirrored byte, or the argument when beyond the tables; on
\* "other" there is no defined outcome beyond them
Convert(c, set, offset) ==
    IF c \in FacilityDomain THEN (IF c \in set THEN c + offset ELSE c)
    ELSE IF platform = "other"
         THEN (IF c \in TableRange THEN 0 ELSE Undefined)
    ELSE IF c \in Mirrored
         THEN (IF MirrorOf(c) \in set THEN MirrorOf(c) + offset
                                      ELSE MirrorOf(c))
    ELSE c

toupper(c) == Convert(c, HasUpper, -32)
tolower(c) == Convert(c, HasLower, 32)

\* one call into <cctype>, as logged in calls
Call(fn, a) == [fn |-> fn, arg |-> a]

\* ------------------------------------------ character transforms (single)
\* (variant: every letter is shifted down by 32, upper-case ones included)
to_upper_offset(c) ==
    IF isalpha(ToUChar(c)) # 0 THEN ToChar(ToUChar(c) - 32) ELSE c
to_upper(c) == ToChar(toupper(ToUChar(c)))

\* (variant: the int result is not narrowed back to char)
to_lower_noNarrow(c) == tolower(ToUChar(c))
to_lower(c) == ToChar(tolower(ToUChar(c)))

\* ---------------------------------------------- character classifications
\* (variant: the int result is compared with 1 instead of with 0)
is_alpha_eq1(c) == isalpha(ToUChar(c)) = 1
is_alpha(c)  == isalpha(ToUChar(c)) # 0
is_digit(c)  == isdigit(ToUChar(c)) # 0
is_alnum(c)  == isalnum(ToUChar(c)) # 0
is_space(c)  == isspace(ToUChar(c)) # 0
is_cntrl(c)  == iscntrl(ToUChar(c)) # 0
is_punct(c)  == ispunct(ToUChar(c)) # 0
is_print(c)  == isprint(ToUChar(c)) # 0
is_graph(c)  == isgraph(ToUChar(c)) # 0
is_xdigit(c) == isxdigit(ToUChar(c)) # 0

\* ------------------------------------------------------- functor objects
ToUpper(c) == ToChar(toupper(ToUChar(c)))
ToLower(c) == ToChar(tolower(ToUChar(c)))

\* ------------------------------------------------- ASCII-only fast path
\* 'a' = 97, 'z' = 122, 'A' = 65, 'Z' = 90; ch - 'a' + 'A' is computed in int
\* (variants: delegating to the locale-aware transform; no upper bound test)
ascii_to_upper_locale(c) == to_upper(c)
ascii_to_upper_noBound(c) == IF c >= 97 THEN ToChar(c - 97 + 65) ELSE c
ascii_to_upper(c) ==
    IF c >= 97 /\ c <= 122 THEN ToChar(c - 97 + 65) ELSE c

\* (variant: the upper bound is 'z' instead of 'Z')
ascii_to_lower_wrongBound(c) ==
    IF c >= 65 /\ c <= 122 THEN ToChar(c - 65 + 97) ELSE c
ascii_to_lower(c) ==
    IF c >= 65 /\ c <= 90 THEN ToChar(c - 65 + 97) ELSE c

\* ------------------------------------------- transforms over sequences
\* the lambdas handed to std::transform: [](unsigned char c) { ... }
lambda_upper(c) == ToChar(toupper(ToUChar(c)))
lambda_lower(c) == ToChar(tolower(ToUChar(c)))

UnaryOp(kind, c) == IF kind = "upper" THEN lambda_upper(c) ELSE lambda_lower(c)
UnaryCall(kind, c) ==
    IF kind = "upper" THEN Call("toupper", ToUChar(c))
                      ELSE Call("tolower", ToUChar(c))

\* std::transform(f, l, d, unary_op) over the positions of mem:
\*   while (f != l) *d++ = unary_op(*f++);
\* log accumulates the <cctype> calls made on the way
RECURSIVE transform(_, _, _, _, _, _)
transform(mem, f, l, d, kind, log) ==
    IF f = l THEN [mem |-> mem, calls |-> log]
    ELSE transform([mem EXCEPT ![d] = UnaryOp(kind, mem[f])],
                   f + 1, l, d + 1, kind,
                   Append(log, UnaryCall(kind, mem[f])))

\* begin() and end() of a sequence
Begin(str) == 1
End(str) == Len(str) + 1

to_upper_inplace(str) == transform(str, Begin(str), End(str), Begin(str), "upper", <<>>)
to_lower_inplace(str) == transform(str, Begin(str), End(str), Begin(str), "lower", <<>>)

\* the iterator-pair overloads, on the sequence mem the iterators point into
\* (variant: the whole container is transformed, whatever the range)
to_upper_inplace_whole(mem, f, l) ==
    transform(mem, Begin(mem), End(mem), Begin(mem), "upper", <<>>)
to_upper_inplace_It(mem, f, l) == transform(mem, f, l, f, "upper", <<>>)
to_lower_inplace_It(mem, f, l) == transform(mem, f, l, f, "lower", <<>>)

\* std::string out(sv): a new sequence with the content of the view
\* (variant: the copy is handed to the lower-case transform)
to_upper_copy_lower(sv) == LET o == sv IN to_lower_inplace(o)
to_upper_copy(sv) == LET o == sv IN to_upper_inplace(o)

\* (variant: the copy misses the last character of the view)
to_lower_copy_trunc(sv) ==
    LET o == SubSeq(sv, 1, Len(sv) - 1) IN to_lower_inplace(o)
to_lower_copy(sv) == LET o == sv IN to_lower_inplace(o)

\* ---------------------------------------------------------------- state
BuildInit ==
    /\ charSigned \in BOOLEAN
    /\ platform \in Platforms
    /\ op = "none"
    /\ ret = 0
    /\ calls = <<>>
    /\ out = <<>>
    /\ first = 1
    /\ last = 1

\* the program starts in the "C" locale; the caller holds any char value
Init ==
    /\ BuildInit
    /\ locale = "C"
    /\ opLocale = "C"
    /\ ch \in CharValues
    /\ s = <<>>
    /\ orig = <<>>

\* std::setlocale, called by the embedding program, never by the library
SetLocale ==
    /\ \E l \in Locales \ {locale} : locale' = l
    /\ UNCHANGED <<charSigned, platform, op, opLocale, ch, ret, calls,
                   s, orig, out, first, last>>

\* a call of the single-character entry point name on the char ch,
\* returning r after the <cctype> calls cs
CharCall(name, r, cs) ==
    /\ op' = name
    /\ opLocale' = locale
    /\ ret' = r
    /\ calls' = cs
    /\ orig' = s
    /\ out' = <<>>
    /\ first' = 1
    /\ last' = 1
    /\ UNCHANGED <<charSigned, platform, locale, ch, s>>

Call_to_upper ==
    CharCall("to_upper", to_upper(ch), <<Call("toupper", ToUChar(ch))>>)
Call_to_lower ==
    CharCall("to_lower", to_lower(ch), <<Call("tolower", ToUChar(ch))>>)
Call_is_alpha ==
    CharCall("is_alpha", is_alpha(ch), <<Call("isalpha", ToUChar(ch))>>)
Call_is_digit ==
    CharCall("is_digit", is_digit(ch), <<Call("isdigit", ToUChar(ch))>>)
Call_is_alnum ==
    CharCall("is_alnum", is_alnum(ch), <<Call("isalnum", ToUChar(ch))>>)
Call_is_space ==
    CharCall("is_space", is_space(ch), <<Call("isspace", ToUChar(ch))>>)
Call_is_cntrl ==
    CharCall("is_cntrl", is_cntrl(ch), <<Call("iscntrl", ToUChar(ch))>>)
Call_is_punct ==
    CharCall("is_punct", is_punct(ch), <<Call("ispunct", ToUChar(ch))>>)
Call_is_print ==
    CharCall("is_print", is_print(ch), <<Call("isprint", ToUChar(ch))>>)
Call_is_graph ==
    CharCall("is_graph", is_graph(ch), <<Call("isgraph", ToUChar(ch))>>)
Call_is_xdigit ==
    CharCall("is_xdigit", is_xdigit(ch), <<Call("isxdigit", ToUChar(ch))>>)
Call_ToUpper ==
    CharCall("ToUpper", ToUpper(ch), <<Call("toupper", ToUChar(ch))>>)
Call_ToLower ==
    CharCall("ToLower", ToLower(ch), <<Call("tolower", ToUChar(ch))>>)
Call_ascii_to_upper ==
    CharCall("ascii_to_upper", ascii_to_upper(ch), <<>>)
Call_ascii_to_lower ==
    CharCall("ascii_to_lower", ascii_to_lower(ch), <<>>)

CharEntry ==
    \/ Call_to_upper
    \/ Call_to_lower
    \/ Call_is_alpha
    \/ Call_is_digit
    \/ Call_is_alnum
    \/ Call_is_space
    \/ Call_is_cntrl
    \/ Call_is_punct
    \/ Call_is_print
    \/ Call_is_graph
    \/ Call_is_xdigit
    \/ Call_ToUpper
    \/ Call_ToLower
    \/ Call_ascii_to_upper
    \/ Call_ascii_to_lower

Next ==
    \/ SetLocale
    \/ CharEntry

Spec == Init /\ [][Next]_vars

\* ------------------------------------------------ sequence entry points
RECURSIVE SeqsOver(_, _)
SeqsOver(set, n) ==
    IF n = 0 THEN {<<>>}
    ELSE LET shorter == SeqsOver(set, n - 1)
         IN  shorter \cup {Append(q, x) : q \in shorter, x \in set}

\* the sequences a caller may hold: up to MaxLen chars out of SeqBytes
SeqInputs == SeqsOver({CharOf(b) : b \in SeqBytes}, MaxLen)

\* the embedding program has installed its locale before the calls
SeqInit ==
    /\ BuildInit
    /\ locale \in Locales
    /\ opLocale = locale
    /\ ch = 0
    /\ s \in SeqInputs
    /\ orig = s

\* a call of an in-place entry point name over [f, l) of s, with effect r
InplaceCall(name, f, l, r) ==
    /\ op' = name
    /\ opLocale' = locale
    /\ orig' = s
    /\ s' = r.mem
    /\ calls' = r.calls
    /\ out' = <<>>
    /\ first' = f
    /\ last' = l
    /\ ret' = 0
    /\ UNCHANGED <<charSigned, platform, locale, ch>>

\* a call of a copying entry point name on a view of s, with effect r
CopyCall(name, r) ==
    /\ op' = name
    /\ opLocale' = locale
    /\ orig' = s
    /\ out' = r.mem
    /\ calls' = r.calls
    /\ first' = Begin(s)
    /\ last' = End(s)
    /\ ret' = 0
    /\ UNCHANGED <<charSigned, platform, locale, ch, s>>

Call_to_upper_inplace ==
    InplaceCall("to_upper_inplace", Begin(s), End(s), to_upper_inplace(s))
Call_to_lower_inplace ==
    InplaceCall("to_lower_inplace", Begin(s), End(s), to_lower_inplace(s))
Call_to_upper_inplace_It == \E f \in Begin(s)..End(s) : \E l \in f..End(s) :
    InplaceCall("to_upper_inplace_It", f, l, to_upper_inplace_It(s, f, l))
Call_to_lower_inplace_It == \E f \in Begin(s)..End(s) : \E l \in f..End(s) :
    InplaceCall("to_lower_inplace_It", f, l, to_lower_inplace_It(s, f, l))
Call_to_upper_copy == CopyCall("to_upper_copy", to_upper_copy(s))
Call_to_lower_copy == CopyCall("to_lower_copy", to_lower_copy(s))

SeqEntry ==
    \/ Call_to_upper_inplace
    \/ Call_to_lower_inplace
    \/ Call_to_upper_inplace_It
    \/ Call_to_lower_inplace_It
    \/ Call_to_upper_copy
    \/ Call_to_lower_copy

SeqNext == SeqEntry

SeqSpec == SeqInit /\ [][SeqNext]_vars

\* --------------------------------- the whole library on one char value
\* the caller holds a char and a sequence of at most one element of it
LibInit ==
    /\ BuildInit
    /\ locale \in Locales
    /\ opLocale = locale
    /\ ch \in CharValues
    /\ s \in {<<>>, <<ch>>}
    /\ orig = s

LibNext ==
    \/ CharEntry
    \/ SeqEntry

LibSpec == LibInit /\ [][LibNext]_vars

TypeOK ==
    /\ charSigned \in BOOLEAN
    /\ locale \in Locales
    /\ ch \in CharValues
    /\ \A i \in 1..Len(s) : s[i] \in CharValues
    /\ \A i \in 1..Len(out) : out[i] \in CharValues

\* ------------------------------------------------------------ properties
\* the byte value 0..255 a char holds, and the char holding a byte value
ByteOf(c) == IF c < 0 THEN c + 256 ELSE c
Narrow(b) == IF charSigned /\ b >= 128 THEN b - 256 ELSE b

WholeOps == {"to_upper_inplace", "to_lower_inplace"}
RangeOps == {"to_upper_inplace_It", "to_lower_inplace_It"}
CopyOps == {"to_upper_copy", "to_lower_copy"}
UpperOps == {"to_upper_inplace", "to_upper_inplace_It", "to_upper_copy"}

\* C1: every <cctype> call made by any entry point (single-character
\* wrappers, predicates, functors, in-place and copying transforms on every
\* element) has its argument in 0..255, whatever byte the char holds and
\* whether plain char is signed or not.
C1_ArgsInDomain ==
    \A i \in 1..Len(calls) : calls[i].arg \in Byte

\* a negative char went through an in-place transform and through a
\* predicate, each making one call
C1_Witness ==
    /\ charSigned
    /\ ch < 0
    /\ op = "to_upper_inplace"
    /\ orig = <<ch>>
    /\ Len(calls) = 1
    /\ calls[1].arg = ch + 256

\* C2: each predicate returns true exactly when the platform routine is
\* non-zero on the byte widened to 0..255, and each conversion returns the
\* platform result on the widened byte narrowed back to char.
C2_MatchesFacility ==
    opLocale = locale =>
        /\ op = "to_upper"  => ret = Narrow(toupper(ByteOf(ch)))
        /\ op = "to_lower"  => ret = Narrow(tolower(ByteOf(ch)))
        /\ op = "is_alpha"  => ret = (isalpha(ByteOf(ch)) # 0)
        /\ op = "is_digit"  => ret = (isdigit(ByteOf(ch)) # 0)
        /\ op = "is_alnum"  => ret = (isalnum(ByteOf(ch)) # 0)
        /\ op = "is_space"  => ret = (isspace(ByteOf(ch)) # 0)
        /\ op = "is_cntrl"  => ret = (iscntrl(ByteOf(ch)) # 0)
        /\ op = "is_punct"  => ret = (ispunct(ByteOf(ch)) # 0)
        /\ op = "is_print"  => ret = (isprint(ByteOf(ch)) # 0)
        /\ op = "is_graph"  => ret = (isgraph(ByteOf(ch)) # 0)
        /\ op = "is_xdigit" => ret = (isxdigit(ByteOf(ch)) # 0)

\* a negative char was classified as a letter under the ISO-8859-1 locale
C2_Witness ==
    /\ charSigned
    /\ ch < 0
    /\ op = "is_alpha"
    /\ opLocale = "Latin1"
    /\ locale = "Latin1"
    /\ ret = TRUE

\* C3: ascii_to_upper maps 'a'..'z' to the upper-case letter and returns
\* every other byte unchanged, ascii_to_lower likewise for 'A'..'Z'; bytes
\* with the top bit set come back unchanged and the result is a char value.
C3_AsciiMapping ==
    /\ op = "ascii_to_upper" =>
           /\ ret = (IF ByteOf(ch) \in 97..122 THEN ch - 32 ELSE ch)
           /\ ret \in CharValues
    /\ op = "ascii_to_lower" =>
           /\ ret = (IF ByteOf(ch) \in 65..90 THEN ch + 32 ELSE ch)
           /\ ret \in CharValues

\* the byte 0xDF, negative as a signed char, came back unchanged
C3_Witness ==
    /\ charSigned
    /\ op = "ascii_to_lower"
    /\ ByteOf(ch) = 223
    /\ ch < 0
    /\ ret = ch

\* C4: in the "C" locale the ASCII fast path and the locale-aware transform
\* agree on every byte.
C4_AsciiAgreesInCLocale ==
    locale = "C" =>
        /\ op = "ascii_to_upper" => ret = to_upper(ch)
        /\ op = "ascii_to_lower" => ret = to_lower(ch)
        /\ op = "to_upper" /\ opLocale = "C" => ret = ascii_to_upper(ch)
        /\ op = "to_lower" /\ opLocale = "C" => ret = ascii_to_lower(ch)

\* 'a' was upper-cased by the fast path in the "C" locale
C4_Witness ==
    /\ locale = "C"
    /\ opLocale = "C"
    /\ op = "ascii_to_upper"
    /\ ch = 97
    /\ ret = 65

\* C5: the ASCII fast path gives the same result under every locale and makes
\* no <cctype> call: a result obtained under one locale is the result under
\* the locale active now.
C5_AsciiLocaleIndependent ==
    /\ op = "ascii_to_upper" => calls = <<>> /\ ret = ascii_to_upper(ch)
    /\ op = "ascii_to_lower" => calls = <<>> /\ ret = ascii_to_lower(ch)

\* 0xE9 went through the fast path under "C", the locale is now ISO-8859-1,
\* where to_upper maps this byte and the fast path still does not
C5_Witness ==
    /\ op = "ascii_to_upper"
    /\ opLocale = "C"
    /\ locale = "Latin1"
    /\ ByteOf(ch) = 233
    /\ ret = ch
    /\ to_upper(ch) # ch

\* C8: to_upper(to_upper(c)) = to_upper(c) and to_lower(to_lower(c)) =
\* to_lower(c) for every byte, under the locale of the call.
C8_Idempotent ==
    opLocale = locale =>
        /\ op = "to_upper" => to_upper(ret) = ret
        /\ op = "to_lower" => to_lower(ret) = ret

\* 0xE9 was upper-cased to 0xC9 under the ISO-8859-1 locale
C8_Witness ==
    /\ op = "to_upper"
    /\ opLocale = "Latin1"
    /\ locale = "Latin1"
    /\ ByteOf(ch) = 233
    /\ ByteOf(ret) = 201

\* C9: in the "C" locale a char that is not a letter is returned unchanged by
\* to_upper and by to_lower, the bytes 128..255 included.
C9_NonLettersFixed ==
    locale = "C" /\ opLocale = "C" /\ op \in {"to_upper", "to_lower"}
        /\ ~is_alpha(ch) => ret = ch

\* a negative char, no letter in the "C" locale, went through to_lower
C9_Witness ==
    /\ charSigned
    /\ locale = "C"
    /\ opLocale = "C"
    /\ op = "to_lower"
    /\ ch < 0
    /\ ~is_alpha(ch)
    /\ ret = ch

\* C6: under a fixed locale the in-place transform of a sequence (whole
\* sequence overload, or iterator pair over the whole sequence) gives,
\* element for element, what the copying transform returns for it.
C6_InplaceEqualsCopy ==
    opLocale = locale =>
        /\ op = "to_upper_inplace" => s = to_upper_copy(orig).mem
        /\ op = "to_lower_inplace" => s = to_lower_copy(orig).mem
        /\ op = "to_upper_inplace_It" /\ first = 1 /\ last = Len(orig) + 1
               => s = to_upper_copy(orig).mem
        /\ op = "to_lower_inplace_It" /\ first = 1 /\ last = Len(orig) + 1
               => s = to_lower_copy(orig).mem
        /\ op = "to_upper_copy" => out = to_upper_inplace(orig).mem
        /\ op = "to_lower_copy" => out = to_lower_inplace(orig).mem

\* a three-character sequence was changed in place through an iterator pair
\* spanning it
C6_Witness ==
    /\ op = "to_upper_inplace_It"
    /\ opLocale = locale
    /\ Len(orig) = 3
    /\ first = 1
    /\ last = 4
    /\ s # orig

\* C7: a copying transform returns a sequence as long as its input and
\* leaves the input as it was; for the empty input the result is empty.
C7_CopyFrame ==
    op \in CopyOps =>
        /\ Len(out) = Len(orig)
        /\ s = orig
        /\ orig = <<>> => out = <<>>

\* a three-character sequence was copied and the copy differs from it
C7_Witness ==
    /\ op = "to_lower_copy"
    /\ Len(orig) = 3
    /\ Len(out) = 3
    /\ out # orig
    /\ s = orig

\* C10: an in-place transform over [first, last) makes one <cctype> call per
\* position of the range, in order, on the original element; it replaces
\* each element of the range by its single-character transform and leaves
\* the other elements and the length alone; an empty range changes nothing.
C10_RangeFrame ==
    op \in WholeOps \cup RangeOps /\ opLocale = locale =>
        /\ Len(s) = Len(orig)
        /\ \A i \in 1..Len(orig) :
               s[i] = IF i < first \/ i >= last THEN orig[i]
                      ELSE IF op \in UpperOps THEN to_upper(orig[i])
                      ELSE to_lower(orig[i])
        /\ Len(calls) = last - first
        /\ \A k \in 1..Len(calls) :
               calls[k].arg = ByteOf(orig[first + k - 1])
        /\ first = last => s = orig /\ calls = <<>>

\* the middle element of a three-character sequence was transformed, its
\* neighbours were not
C10_Witness ==
    /\ op = "to_upper_inplace_It"
    /\ Len(orig) = 3
    /\ first = 2
    /\ last = 3
    /\ s[2] # orig[2]
    /\ s[1] = orig[1]
    /\ s[3] = orig[3]
    /\ Len(calls) = 1

====
